---- MODULE Spec2Model ----
(***************************************************************************)
(* The swap-execution pipeline of the repository: quote, (normalize),      *)
(* build, execute, verify.  The repository holds several variants of the   *)
(* same script executeSwap(walletKey); the model runs one of them per      *)
(* behaviour (variable `variant`):                                         *)
(*   "v70"  src/execute_buy_v70.js   fetch, stringified quote, ok checks   *)
(*   "v64"  src/execute_buy_v64.js   fetch, no ok checks                   *)
(*   "v22"  src/execute_buy_v22.js   fetch + web3 confirmTransaction       *)
(*   "p001" src/unnamed/part_001     getQuote() with the quote retry loop  *)
(*   "v21"  src/execute_buy_v21.js   @jup-ag/api client, single confirm    *)
(* One action is one resumption of the async function: from the arrival of *)
(* the awaited response (or timer) up to the next await.                   *)
(***************************************************************************)
EXTENDS Integers, Sequences, FiniteSets, TLC

\* ------------------------------------------------------------------------
\* JavaScript values.  Every value is a record of the same shape so that any
\* two values can be compared.  A number is n * 10^e (n >= 0, n not a
\* multiple of 10 unless it is 0).
\* ------------------------------------------------------------------------

Undef == [t |-> "undefined", s |-> "", n |-> 0, e |-> 0]

Null == [t |-> "null", s |-> "", n |-> 0, e |-> 0]

Str(x) == [t |-> "string", s |-> x, n |-> 0, e |-> 0]

Num(m, x) == [t |-> "number", s |-> "", n |-> m, e |-> x]

Obj(tag) == [t |-> "object", s |-> tag, n |-> 0, e |-> 0]

\* The ToBoolean of a value, as `!x` and `x || y` use it.
Truthy(v) ==
    CASE v.t = "undefined" -> FALSE
      [] v.t = "null" -> FALSE
      [] v.t = "string" -> v.s # ""
      [] v.t = "number" -> v.n # 0
      [] OTHER -> TRUE

DigitChar == <<"0", "1", "2", "3", "4", "5", "6", "7", "8", "9">>

RECURSIVE IntDigits(_)
\* The decimal digits of a natural number, most significant first.
IntDigits(m) ==
    IF m < 10 THEN <<m>> ELSE Append(IntDigits(m \div 10), m % 10)

RECURSIVE DigitsToStr(_)
DigitsToStr(ds) ==
    IF ds = <<>> THEN "" ELSE DigitChar[Head(ds) + 1] \o DigitsToStr(Tail(ds))

RECURSIVE Zeros(_)
Zeros(k) == IF k <= 0 THEN "" ELSE "0" \o Zeros(k - 1)

\* Number::toString(x) of ECMAScript for a finite x >= 0 given as n * 10^e:
\* with k digits and the decimal point after digit number p = k + e,
\*   k <= p <= 21  digits then p-k zeros;   0 < p < k   digits with a point;
\*   -6 < p <= 0   "0." zeros digits;       otherwise   exponent notation.
NumberToString(m, x) ==
    LET ds == IntDigits(m)
        k == Len(ds)
        p == k + x
        expo == p - 1
        expStr == IF expo < 0 THEN "e-" \o DigitsToStr(IntDigits(0 - expo))
                  ELSE "e+" \o DigitsToStr(IntDigits(expo))
    IN  IF m = 0 THEN "0"
        ELSE IF k <= p /\ p <= 21 THEN DigitsToStr(ds) \o Zeros(p - k)
        ELSE IF 0 < p /\ p < k
             THEN DigitsToStr(SubSeq(ds, 1, p)) \o "." \o DigitsToStr(SubSeq(ds, p + 1, k))
        ELSE IF -6 < p /\ p <= 0 THEN "0." \o Zeros(0 - p) \o DigitsToStr(ds)
        ELSE IF k = 1 THEN DigitsToStr(ds) \o expStr
        ELSE DigitsToStr(<<Head(ds)>>) \o "." \o DigitsToStr(Tail(ds)) \o expStr

\* A faulty canToString: String(v) in the place of v.toString(), which
\* throws on no value.
canToStringLoose(v) == v.t \in {"undefined", "null", "string", "number", "object"}

\* v.toString() throws a TypeError on undefined and null.
canToString(v) == v.t \notin {"undefined", "null"}

\* A faulty toString: JSON.stringify(v) in the place of v.toString(), which
\* puts a string between double quotes.
toStringJson(v) ==
    CASE v.t = "string" -> Str("\"" \o v.s \o "\"")
      [] v.t = "number" -> Str(NumberToString(v.n, v.e))
      [] OTHER -> Str("{}")

\* v.toString() for a value that has the method.
toString(v) ==
    CASE v.t = "string" -> Str(v.s)
      [] v.t = "number" -> Str(NumberToString(v.n, v.e))
      [] OTHER -> Str("[object Object]")

\* ------------------------------------------------------------------------
\* Bounds of the model.
\* ------------------------------------------------------------------------

\* The longest routePlan a quote response carries.
MaxRoute == 1

\* ------------------------------------------------------------------------
\* Program constants.
\* ------------------------------------------------------------------------

MAX_RETRIES == 3

\* "Maximum retry attempts: 3" of the documentation, for a failed trade.
MaxTradeRetries == 3

Variants == {"v70", "v64", "v22", "p001", "v21"}

\* ------------------------------------------------------------------------
\* Response bodies.  kind is "unparsable" (response.json() rejects), "null"
\* (the JSON value null) or "object"; a field that the object lacks is Undef.
\* ------------------------------------------------------------------------

AmountVals ==
    {Undef, Str("123456"), Num(123456, 0), Num(5, -1)}

OutAmountVals == AmountVals \cup {Str("0"), Num(0, 0)}

GoodSwapInfo ==
    [present |-> TRUE, ammKey |-> Str("pool"),
     inAmount |-> Str("5000000000"), outAmount |-> Str("123456"),
     feeAmount |-> Str("12")]

GoodPlan == [swapInfo |-> GoodSwapInfo, percent |-> Num(1, 2)]

PlanVals ==
    {GoodPlan, [GoodPlan EXCEPT !.swapInfo.present = FALSE]}
    \cup {[GoodPlan EXCEPT !.swapInfo[f] = v] :
            f \in {"inAmount", "outAmount", "feeAmount"}, v \in AmountVals}

\* routePlan: absent, or a sequence of at most MaxRoute entries of which
\* at most the last is not the well-formed one.
RoutePlans ==
    {[present |-> FALSE, plans |-> <<>>], [present |-> TRUE, plans |-> <<>>]}
    \cup {[present |-> TRUE, plans |-> [i \in 1..n |-> IF i = n THEN pl ELSE GoodPlan]] :
            n \in 1..MaxRoute, pl \in PlanVals}

GoodQuote ==
    [kind |-> "object", error |-> Undef,
     inAmount |-> Str("5000000000"), outAmount |-> Str("123456"),
     otherAmountThreshold |-> Str("120370"), priceImpactPct |-> Str("0.01"),
     swapUsdValue |-> Str("950.5"),
     swapMode |-> Str("ExactIn"), slippageBps |-> Num(25, 1),
     platformFee |-> Null, contextSlot |-> Num(312345678, 0),
     timeTaken |-> Num(42, -3),
     routePlan |-> [present |-> TRUE, plans |-> <<GoodPlan>>]]

\* The value of `quote` before a response is assigned to it, and the two
\* bodies that are no object.
NoQuote == [GoodQuote EXCEPT !.kind = "undefined"]

NullQuote == [GoodQuote EXCEPT !.kind = "null"]

UnparsableQuote == [GoodQuote EXCEPT !.kind = "unparsable"]

\* The aggregator's error answer {error: "..."}: no quote field at all.
ErrorQuote ==
    [GoodQuote EXCEPT
        !.error = Str("No routes found"),
        !.inAmount = Undef, !.outAmount = Undef, !.otherAmountThreshold = Undef,
        !.priceImpactPct = Undef, !.swapUsdValue = Undef,
        !.swapMode = Undef, !.slippageBps = Undef,
        !.platformFee = Undef, !.contextSlot = Undef, !.timeTaken = Undef,
        !.routePlan = [present |-> FALSE, plans |-> <<>>]]

QuoteBodies ==
    {NullQuote, UnparsableQuote, ErrorQuote,
     [GoodQuote EXCEPT !.error = Str("No routes found")]}
    \cup {[GoodQuote EXCEPT !.outAmount = v] : v \in OutAmountVals}
    \cup {[GoodQuote EXCEPT ![f] = v] :
            f \in {"inAmount", "otherAmountThreshold", "priceImpactPct", "swapUsdValue"},
            v \in AmountVals}
    \cup {[GoodQuote EXCEPT !.routePlan = rp] : rp \in RoutePlans}

BuildBodies ==
    {[kind |-> k, error |-> Undef, swapTransaction |-> Undef] : k \in {"unparsable", "null"}}
    \cup {[kind |-> "object", error |-> er, swapTransaction |-> tx] :
            er \in {Undef, Str("build refused")},
            tx \in {Undef, Str(""), Str("BASE64BLOB")}}

ExecuteBodies ==
    {[kind |-> k, error |-> Undef, txid |-> Undef] : k \in {"unparsable", "null"}}
    \cup {[kind |-> "object", error |-> er, txid |-> tx] :
            er \in {Undef, Str("execute refused")},
            tx \in {Undef, Str(""), Str("abcd")}}

\* getTransaction: {result: null}, {result: {meta: {err}}}, a result without
\* (or with a null) meta, or an object without result (a JSON-RPC error).
ConfirmBodies ==
    {[kind |-> k, result |-> "absent", meta |-> "absent", err |-> Null] :
        k \in {"unparsable", "null", "object"}}
    \cup {[kind |-> "object", result |-> "null", meta |-> "absent", err |-> Null]}
    \cup {[kind |-> "object", result |-> "object", meta |-> m, err |-> Null] :
            m \in {"absent", "null"}}
    \cup {[kind |-> "object", result |-> "object", meta |-> "object", err |-> er] :
            er \in {Null, Obj("InstructionError")}}

\* A response of fetch: net = "fail" when fetch itself rejects (no HTTP
\* response at all), otherwise the status (ok is status 2xx) and the body.
Responses(bodies) ==
    {[net |-> "fail", ok |-> FALSE, body |-> CHOOSE b \in bodies : b.kind = "unparsable"]}
    \cup {[net |-> "ok", ok |-> o, body |-> b] : o \in BOOLEAN, b \in bodies}

\* What a call of a client library (@jup-ag/api, web3.js Connection) can
\* give: it throws, or it returns a parsed value.
LibraryResults(bodies) ==
    {r \in Responses(bodies) : r.net = "fail" \/ (r.ok /\ r.body.kind # "unparsable")}

\* connection.confirmTransaction(signature): throws, or resolves to
\* {value: {err}}.
ConfirmationResults ==
    {r \in LibraryResults(ConfirmBodies) :
        r.net = "fail" \/ (r.body.result = "object" /\ r.body.meta = "object")}

\* ------------------------------------------------------------------------
\* The stages as pure functions of the response: what the code between two
\* awaits decides.  An outcome is "ok" (go on), "throw" (an exception, which
\* by default reaches the catch block of executeSwap) or "exit" (a direct
\* process.exit(1) that writes no error object).
\* ------------------------------------------------------------------------

Ok == [res |-> "ok", msg |-> ""]

Throw(m) == [res |-> "throw", msg |-> m]

Exit(m) == [res |-> "exit", msg |-> m]

\* Step 1, from the quote response to the quote check.
QuoteStage(v, r) ==
    IF r.net = "fail" THEN Throw("FetchError")
    ELSE IF v = "v21"
         THEN IF r.body.kind = "null" THEN Exit("No routes found") ELSE Ok
    ELSE IF r.body.kind = "unparsable" THEN Throw("SyntaxError")
    ELSE IF v \in {"v70", "v64"}
         THEN IF r.body.kind = "null" \/ ~Truthy(r.body.outAmount)
              THEN Throw("Invalid quote response") ELSE Ok
    ELSE IF v = "v22"
         THEN IF r.body.kind = "null" THEN Throw("Failed to get quote")
              ELSE IF Truthy(r.body.error) THEN Throw(r.body.error.s) ELSE Ok
    ELSE \* part_001, getQuote: data.error of null is a TypeError
         IF r.body.kind = "null" THEN Throw("TypeError")
         ELSE IF Truthy(r.body.error) THEN Throw(r.body.error.s) ELSE Ok

\* Only part_001 wraps the quote request in the retry loop
\* `let retries = MAX_RETRIES; while (retries > 0) { try ... catch ... }`.
HasQuoteRetry(v) == v = "p001"

\* Every .toString() of the stringifiedQuote literal has a receiver.
canStringify(q) ==
    /\ canToString(q.inAmount)
    /\ canToString(q.outAmount)
    /\ canToString(q.otherAmountThreshold)
    /\ canToString(q.priceImpactPct)
    /\ canToString(q.swapUsdValue)
    /\ q.routePlan.present
    /\ \A i \in DOMAIN q.routePlan.plans :
          LET si == q.routePlan.plans[i].swapInfo
          IN  /\ si.present
              /\ canToString(si.inAmount)
              /\ canToString(si.outAmount)
              /\ canToString(si.feeAmount)

\* A faulty stringifiedQuote: every numeric value of the quote is converted,
\* slippageBps, contextSlot, timeTaken and the percent of the route entries
\* included.
stringifiedQuoteAllNumbers(q) ==
    [q EXCEPT
        !.inAmount = toString(@),
        !.outAmount = toString(@),
        !.otherAmountThreshold = toString(@),
        !.priceImpactPct = toString(@),
        !.swapUsdValue = toString(@),
        !.slippageBps = toString(@),
        !.contextSlot = toString(@),
        !.timeTaken = toString(@),
        !.routePlan.plans =
            [i \in DOMAIN @ |->
                [@[i] EXCEPT
                    !.percent = toString(@),
                    !.swapInfo.inAmount = toString(@),
                    !.swapInfo.outAmount = toString(@),
                    !.swapInfo.feeAmount = toString(@)]]]

\* The object literal `stringifiedQuote` of v70.
stringifiedQuote(q) ==
    [q EXCEPT
        !.inAmount = toString(@),
        !.outAmount = toString(@),
        !.otherAmountThreshold = toString(@),
        !.priceImpactPct = toString(@),
        !.swapUsdValue = toString(@),
        !.routePlan.plans =
            [i \in DOMAIN @ |->
                [@[i] EXCEPT
                    !.swapInfo.inAmount = toString(@),
                    !.swapInfo.outAmount = toString(@),
                    !.swapInfo.feeAmount = toString(@)]]]

\* Step 2 up to the build request: only v70 converts the quote.
NormalizeStage(v, q) ==
    IF v = "v70" /\ ~canStringify(q) THEN Throw("TypeError") ELSE Ok

\* The quote put into the build request body (quoteResponse, or route in v64).
BuildRequestQuote(v, q) == IF v = "v70" THEN stringifiedQuote(q) ELSE q

\* Step 2, from the build response to the check of swapResult.
BuildStage(v, r) ==
    IF r.net = "fail" THEN Throw("FetchError")
    ELSE IF v = "v21"
         THEN IF r.body.kind = "null" THEN Exit("Failed to get swap instructions") ELSE Ok
    ELSE IF v = "v70" /\ ~r.ok THEN Throw("Swap instructions request failed")
    ELSE IF r.body.kind = "unparsable" THEN Throw("SyntaxError")
    ELSE IF v \in {"v70", "v64"}
         THEN IF r.body.kind = "null" \/ ~Truthy(r.body.swapTransaction)
              THEN Throw("Invalid swap instructions response") ELSE Ok
    ELSE IF v = "v22"
         THEN IF r.body.kind = "null" THEN Throw("Failed to get swap instructions")
              ELSE IF Truthy(r.body.error) THEN Throw(r.body.error.s) ELSE Ok
    ELSE IF r.body.kind = "null" THEN Throw("TypeError")
         ELSE IF Truthy(r.body.error) THEN Throw(r.body.error.s) ELSE Ok

\* Step 3, from the execute response to `signature = executeResult.txid`.
ExecuteStage(v, r) ==
    IF r.net = "fail" THEN Throw("FetchError")
    ELSE IF v = "v21"
         THEN IF r.body.kind = "null" THEN Throw("TypeError") ELSE Ok
    ELSE IF v = "v70" /\ ~r.ok THEN Throw("Swap execution request failed")
    ELSE IF r.body.kind = "unparsable" THEN Throw("SyntaxError")
    ELSE IF v \in {"v70", "v64"}
         THEN IF r.body.kind = "null" \/ ~Truthy(r.body.txid)
              THEN Throw("Invalid execute response") ELSE Ok
    ELSE IF v = "v22"
         THEN IF r.body.kind = "null" THEN Throw("Failed to execute swap")
              ELSE IF Truthy(r.body.error) THEN Throw(r.body.error.s) ELSE Ok
    ELSE IF r.body.kind = "null" THEN Throw("TypeError")
         ELSE IF Truthy(r.body.error) THEN Throw(r.body.error.s) ELSE Ok

\* A faulty VerifyRetries: the budget one too large.
VerifyRetriesOffByOne(v) == MAX_RETRIES + 1

\* `let retries = 3` (MAX_RETRIES in part_001) before the verify loop.
VerifyRetries(v) == IF v = "p001" THEN MAX_RETRIES ELSE 3

\* A faulty VerifyStep: the test is `!result.error`, so that any answer
\* that parses, a result of null included, counts as a confirmation.
VerifyStepNoRpcError(v, r) ==
    IF r.net = "fail" \/ r.body.kind # "object" THEN "caught" ELSE "confirmed"

\* A faulty VerifyStep: the `!` of `!result.result.meta.err` is missing.
VerifyStepInverted(v, r) ==
    IF r.net = "fail" THEN "caught"
    ELSE IF v \in {"v22", "p001"}
         THEN IF Truthy(r.body.err) THEN "confirmed" ELSE "fallthrough"
    ELSE IF v = "v70" /\ ~r.ok THEN "caught"
    ELSE IF r.body.kind \in {"unparsable", "null"} THEN "caught"
    ELSE IF r.body.result # "object" THEN "fallthrough"
    ELSE IF r.body.meta # "object" THEN "caught"
    ELSE IF Truthy(r.body.err) THEN "confirmed" ELSE "fallthrough"

\* A faulty VerifyStep: the test is `!result.result.meta?.err`, so that a
\* result without meta counts as a confirmation.
VerifyStepOptionalMeta(v, r) ==
    IF r.net = "fail" THEN "caught"
    ELSE IF v \in {"v22", "p001"}
         THEN IF ~Truthy(r.body.err) THEN "confirmed" ELSE "fallthrough"
    ELSE IF v = "v70" /\ ~r.ok THEN "caught"
    ELSE IF r.body.kind \in {"unparsable", "null"} THEN "caught"
    ELSE IF r.body.result # "object" THEN "fallthrough"
    ELSE IF r.body.meta # "object" THEN "confirmed"
    ELSE IF ~Truthy(r.body.err) THEN "confirmed" ELSE "fallthrough"

\* Step 4, one pass of the try block of the verify loop: "confirmed" is the
\* `return signature`, "caught" an exception swallowed by the inner catch,
\* "fallthrough" the end of the try block with the condition false.
VerifyStep(v, r) ==
    IF r.net = "fail" THEN "caught"
    ELSE IF v \in {"v22", "p001"}
         THEN IF ~Truthy(r.body.err) THEN "confirmed" ELSE "fallthrough"
    ELSE IF v = "v70" /\ ~r.ok THEN "caught"
    ELSE IF r.body.kind \in {"unparsable", "null"} THEN "caught"
    ELSE IF r.body.result # "object" THEN "fallthrough"
    ELSE IF r.body.meta # "object" THEN "caught"
    ELSE IF ~Truthy(r.body.err) THEN "confirmed" ELSE "fallthrough"

\* v21: the single `await connection.confirmTransaction(result.txid)`.
ConfirmOnce(r) ==
    IF r.net = "fail" THEN Throw("confirmTransaction failed")
    ELSE IF Truthy(r.body.err) THEN Throw("Transaction failed") ELSE Ok

\* The error thrown after the verify loop.
VerificationFailed == "Transaction verification failed"

\* ------------------------------------------------------------------------
\* State.
\* ------------------------------------------------------------------------

VARIABLES
    variant,            \* which script runs
    walletKey,          \* process.env.WALLET_KEY: "unset", "invalid" or "valid"
    pc,                 \* where the script is suspended
    retries,            \* `retries` of the retry loops
    quote,              \* `quote`
    swapRequestBody,    \* the quote sent in the build request, once sent
    buildResponse,      \* the response of the build endpoint, once received
    executeRequestBody, \* the swapTransaction sent to the execute endpoint
    executeResponse,    \* the response of the execute endpoint, once received
    signature,          \* `signature` (result.txid in v21)
    trace,              \* outbound requests and 1-second waits, in order
    polls,              \* what each confirmation poll met, in order
    quotes,             \* what each quote request met, in order
    error,              \* message of the error that ended the run
    failedAt,           \* stage of that error
    exitCode,           \* -1 while running, then the exit status
    errorObject,        \* the {success: false, error} object has been written
    successLogged,      \* a success message or {success: true} has been written
    returned,           \* value executeSwap resolved to
    rpcEndpoint,        \* process.env.RPC_ENDPOINT: "unset" or "configured"
    other               \* the state of a second run (its own process) while
                        \* it is not the one taking a step; NoRun if there is none

\* The state of one run: every variable the script declares, all of them
\* inside executeSwap or in the process of the run.
run ==
    <<variant, walletKey, pc, retries, quote, swapRequestBody, buildResponse,
      executeRequestBody, executeResponse, signature, trace, polls, quotes, error,
      failedAt, exitCode, errorObject, successLogged, returned, rpcEndpoint>>

vars == <<run, other>>

NoRun == <<>>

\* The RPC endpoints: the one configured in RPC_ENDPOINT and the public one
\* the scripts name, https://api.mainnet-beta.solana.com.
PrimaryEndpoint == "primary"

FallbackEndpoint == "https://api.mainnet-beta.solana.com"

\* RPC_ENDPOINT matters to the variants that read it; v70 and v64 never do.
RpcEnvironments(v) ==
    IF v \in {"v70", "v64"} THEN {"unset"} ELSE {"unset", "configured"}

\* The endpoint of the chain RPC calls of the run: the Connection created
\* once at the start of executeSwap, or the URL written in the fetch call
\* of the verify loop (v70, v64).
RpcEndpointOf(v, env) ==
    IF v \in {"v70", "v64"} THEN FallbackEndpoint
    ELSE IF env = "configured" THEN PrimaryEndpoint ELSE FallbackEndpoint

NoResponse(bodies) ==
    [net |-> "none", ok |-> FALSE, body |-> CHOOSE b \in bodies : b.kind = "unparsable"]

Init ==
    /\ other = NoRun
    /\ variant \in Variants
    /\ rpcEndpoint \in RpcEnvironments(variant)
    /\ walletKey \in {"unset", "invalid", "valid"}
    /\ pc = "init"
    /\ retries = 0
    /\ quote = NoQuote
    /\ swapRequestBody = [sent |-> FALSE, quoteResponse |-> NoQuote]
    /\ buildResponse = NoResponse(BuildBodies)
    /\ executeRequestBody = [sent |-> FALSE, swapTransaction |-> Undef]
    /\ executeResponse = NoResponse(ExecuteBodies)
    /\ signature = Undef
    /\ trace = <<>>
    /\ polls = <<>>
    /\ quotes = <<>>
    /\ error = ""
    /\ failedAt = ""
    /\ exitCode = -1
    /\ errorObject = FALSE
    /\ successLogged = FALSE
    /\ returned = Undef

\* The number of entries `kind` of the trace.
Count(kind) == Cardinality({i \in DOMAIN trace : trace[i] = kind})

\* A faulty Terminate: the catch block writes the error but lacks
\* process.exit(1), and the script goes on where it was.
TerminateNoExit(o, stage) ==
    /\ pc' = pc
    /\ exitCode' = exitCode
    /\ error' = o.msg
    /\ failedAt' = stage
    /\ errorObject' = (o.res = "throw")

\* The end of a run on outcome o at `stage`: a thrown error reaches the
\* catch block of executeSwap, which writes the error object and exits 1; a
\* direct process.exit(1) writes none.
Terminate(o, stage) ==
    /\ pc' = "exited"
    /\ exitCode' = 1
    /\ error' = o.msg
    /\ failedAt' = stage
    /\ errorObject' = (o.res = "throw")

\* bs58.decode and Keypair.fromSecretKey at the top of the try block (v70,
\* v64); the other variants hand the key on as it is.
DecodeKey(v, key) ==
    IF v \in {"v70", "v64"} /\ key = "invalid" THEN Throw("Invalid secret key") ELSE Ok

\* A faulty Launch: the `if (!walletKey)` check is missing, executeSwap is
\* called with whatever the environment holds.
LaunchNoKeyCheck ==
    /\ pc = "init"
    /\ IF DecodeKey(variant, walletKey).res # "ok"
       THEN /\ Terminate(DecodeKey(variant, walletKey), "setup")
            /\ UNCHANGED <<retries, trace>>
       ELSE /\ pc' = "quote"
            /\ retries' = IF HasQuoteRetry(variant) THEN MAX_RETRIES ELSE retries
            /\ trace' = Append(trace, "quote")
            /\ UNCHANGED <<error, failedAt, exitCode, errorObject>>
    /\ UNCHANGED <<other, variant, walletKey, rpcEndpoint, quotes, quote, swapRequestBody, buildResponse,
                   executeRequestBody, executeResponse, signature, polls,
                   successLogged, returned>>

\* The wallet-key check at the end of the script and the start of
\* executeSwap up to the first quote request.
Launch ==
    /\ pc = "init"
    /\ IF walletKey = "unset"
       THEN /\ Terminate(Exit("Wallet key not set"), "wallet")
            /\ UNCHANGED <<retries, trace>>
       ELSE IF DecodeKey(variant, walletKey).res # "ok"
       THEN /\ Terminate(DecodeKey(variant, walletKey), "setup")
            /\ UNCHANGED <<retries, trace>>
       ELSE /\ pc' = "quote"
            /\ retries' = IF HasQuoteRetry(variant) THEN MAX_RETRIES ELSE retries
            /\ trace' = Append(trace, "quote")
            /\ UNCHANGED <<error, failedAt, exitCode, errorObject>>
    /\ UNCHANGED <<other, variant, walletKey, rpcEndpoint, quotes, quote, swapRequestBody, buildResponse,
                   executeRequestBody, executeResponse, signature, polls,
                   successLogged, returned>>

\* The amount is greater than zero: a number, or a decimal string other than
\* "0" (the strings of the model are decimal numerals).
PositiveAmount(v) ==
    \/ v.t = "number" /\ v.n > 0
    \/ v.t = "string" /\ v.s \notin {"", "0"}

\* What a quote request met, whatever the script makes of it: a transport
\* failure (no response, or a non-2xx status without a parseable body), an
\* API-level error (a body that is no JSON object, an explicit error field,
\* an outAmount that is missing or not positive), or a quote.
QuoteClass(r) ==
    IF r.net = "fail" \/ (~r.ok /\ r.body.kind = "unparsable") THEN "transport"
    ELSE IF r.body.kind # "object" THEN "apierror"
    ELSE IF Truthy(r.body.error) \/ ~PositiveAmount(r.body.outAmount) THEN "apierror"
    ELSE "quote"

QuoteInputs(v) ==
    IF v = "v21" THEN LibraryResults(QuoteBodies) ELSE Responses(QuoteBodies)

\* A faulty QuoteResponseOn: the catch of the quote loop gives up on
\* `retries < 0`, one attempt too late.
QuoteResponseOnOffByOne(r) ==
    LET o == QuoteStage(variant, r)
        caught == HasQuoteRetry(variant) /\ o.res = "throw"
        left == IF caught THEN retries - 1 ELSE retries
        n == IF o.res = "ok" THEN NormalizeStage(variant, r.body) ELSE o
    IN  /\ retries' = left
        /\ IF caught /\ left >= 0
           THEN \* catch of the quote loop: wait one second, then try again
                /\ pc' = "quote_sleep"
                /\ trace' = Append(trace, "wait")
                /\ UNCHANGED <<quote, swapRequestBody, error, failedAt, exitCode,
                               errorObject>>
           ELSE IF o.res # "ok"
           THEN /\ Terminate(o, "quote")
                /\ UNCHANGED <<quote, swapRequestBody, trace>>
           ELSE IF n.res # "ok"
           THEN /\ Terminate(n, "normalize")
                /\ quote' = r.body
                /\ UNCHANGED <<swapRequestBody, trace>>
           ELSE /\ pc' = "build"
                /\ quote' = r.body
                /\ swapRequestBody' =
                       [sent |-> TRUE, quoteResponse |-> BuildRequestQuote(variant, r.body)]
                /\ trace' = Append(trace, "build")
                /\ UNCHANGED <<error, failedAt, exitCode, errorObject>>
        /\ quotes' = Append(quotes, QuoteClass(r))
        /\ UNCHANGED <<other, variant, walletKey, rpcEndpoint, buildResponse, executeRequestBody,
                       executeResponse, signature, polls, successLogged, returned>>

\* A faulty QuoteResponseOn: the catch of the quote loop waits one second
\* before it looks at `retries`, also after the last attempt.
QuoteResponseOnWaitThenThrow(r) ==
    LET o == QuoteStage(variant, r)
        caught == HasQuoteRetry(variant) /\ o.res = "throw"
        left == IF caught THEN retries - 1 ELSE retries
        n == IF o.res = "ok" THEN NormalizeStage(variant, r.body) ELSE o
    IN  /\ retries' = left
        /\ IF caught /\ left > 0
           THEN /\ pc' = "quote_sleep"
                /\ trace' = Append(trace, "wait")
                /\ UNCHANGED <<quote, swapRequestBody, error, failedAt, exitCode,
                               errorObject>>
           ELSE IF o.res # "ok"
           THEN /\ Terminate(o, "quote")
                /\ trace' = IF caught THEN Append(trace, "wait") ELSE trace
                /\ UNCHANGED <<quote, swapRequestBody>>
           ELSE IF n.res # "ok"
           THEN /\ Terminate(n, "normalize")
                /\ quote' = r.body
                /\ UNCHANGED <<swapRequestBody, trace>>
           ELSE /\ pc' = "build"
                /\ quote' = r.body
                /\ swapRequestBody' =
                       [sent |-> TRUE, quoteResponse |-> BuildRequestQuote(variant, r.body)]
                /\ trace' = Append(trace, "build")
                /\ UNCHANGED <<error, failedAt, exitCode, errorObject>>
        /\ quotes' = Append(quotes, QuoteClass(r))
        /\ UNCHANGED <<other, variant, walletKey, rpcEndpoint, buildResponse, executeRequestBody,
                       executeResponse, signature, polls, successLogged, returned>>

\* The quote response arrives: quote check, retry decision (part_001),
\* stringification (v70) and the build request.
QuoteResponseOn(r) ==
    LET o == QuoteStage(variant, r)
        caught == HasQuoteRetry(variant) /\ o.res = "throw"
        left == IF caught THEN retries - 1 ELSE retries
        n == IF o.res = "ok" THEN NormalizeStage(variant, r.body) ELSE o
    IN  /\ retries' = left
        /\ IF caught /\ left > 0
           THEN \* catch of the quote loop: wait one second, then try again
                /\ pc' = "quote_sleep"
                /\ trace' = Append(trace, "wait")
                /\ UNCHANGED <<quote, swapRequestBody, error, failedAt, exitCode,
                               errorObject>>
           ELSE IF o.res # "ok"
           THEN /\ Terminate(o, "quote")
                /\ UNCHANGED <<quote, swapRequestBody, trace>>
           ELSE IF n.res # "ok"
           THEN /\ Terminate(n, "normalize")
                /\ quote' = r.body
                /\ UNCHANGED <<swapRequestBody, trace>>
           ELSE /\ pc' = "build"
                /\ quote' = r.body
                /\ swapRequestBody' =
                       [sent |-> TRUE, quoteResponse |-> BuildRequestQuote(variant, r.body)]
                /\ trace' = Append(trace, "build")
                /\ UNCHANGED <<error, failedAt, exitCode, errorObject>>
        /\ quotes' = Append(quotes, QuoteClass(r))
        /\ UNCHANGED <<other, variant, walletKey, rpcEndpoint, buildResponse, executeRequestBody,
                       executeResponse, signature, polls, successLogged, returned>>

QuoteResponse ==
    /\ pc = "quote"
    /\ \E r \in QuoteInputs(variant) : QuoteResponseOn(r)

\* The 1-second timer of the quote retry loop fires (part_001).
QuoteTimer ==
    /\ pc = "quote_sleep"
    /\ pc' = "quote"
    /\ trace' = Append(trace, "quote")
    /\ UNCHANGED <<other, variant, walletKey, rpcEndpoint, quotes, retries, quote, swapRequestBody, buildResponse,
                   executeRequestBody, executeResponse, signature, polls, error,
                   failedAt, exitCode, errorObject, successLogged, returned>>

BuildInputs(v) ==
    IF v = "v21" THEN LibraryResults(BuildBodies) ELSE Responses(BuildBodies)

\* A faulty BuildResponseOn: the transaction is padded anew before it is
\* handed to the execute request.
BuildResponseOnRepad(r) ==
    LET o == BuildStage(variant, r)
    IN  /\ buildResponse' = r
        /\ IF o.res # "ok"
           THEN /\ Terminate(o, "build")
                /\ UNCHANGED <<executeRequestBody, trace>>
           ELSE /\ pc' = "execute"
                /\ executeRequestBody' =
                       [sent |-> TRUE,
                        swapTransaction |-> Str(r.body.swapTransaction.s \o "=")]
                /\ trace' = Append(trace, "execute")
                /\ UNCHANGED <<error, failedAt, exitCode, errorObject>>
        /\ UNCHANGED <<other, variant, walletKey, rpcEndpoint, quotes, retries, quote, swapRequestBody,
                       executeResponse, signature, polls, successLogged, returned>>

\* A faulty BuildResponseOn: a failed build is answered with a fresh quote
\* request, once.
BuildResponseOnRequote(r) ==
    LET o == BuildStage(variant, r)
    IN  /\ buildResponse' = r
        /\ IF o.res # "ok" /\ Count("quote") < 2
           THEN /\ pc' = "quote"
                /\ trace' = Append(trace, "quote")
                /\ UNCHANGED <<executeRequestBody, error, failedAt, exitCode,
                               errorObject>>
           ELSE IF o.res # "ok"
           THEN /\ Terminate(o, "build")
                /\ UNCHANGED <<executeRequestBody, trace>>
           ELSE /\ pc' = "execute"
                /\ executeRequestBody' =
                       [sent |-> TRUE, swapTransaction |-> r.body.swapTransaction]
                /\ trace' = Append(trace, "execute")
                /\ UNCHANGED <<error, failedAt, exitCode, errorObject>>
        /\ UNCHANGED <<other, variant, walletKey, rpcEndpoint, quotes, retries, quote, swapRequestBody,
                       executeResponse, signature, polls, successLogged, returned>>

\* A faulty BuildResponseOn: a failed build request is sent again, up to
\* MAX_RETRIES requests in all.
BuildResponseOnRetry(r) ==
    LET o == BuildStage(variant, r)
    IN  /\ buildResponse' = r
        /\ IF o.res # "ok" /\ Count("build") < MAX_RETRIES
           THEN /\ pc' = "build"
                /\ trace' = Append(trace, "build")
                /\ UNCHANGED <<executeRequestBody, error, failedAt, exitCode,
                               errorObject>>
           ELSE IF o.res # "ok"
           THEN /\ Terminate(o, "build")
                /\ UNCHANGED <<executeRequestBody, trace>>
           ELSE /\ pc' = "execute"
                /\ executeRequestBody' =
                       [sent |-> TRUE, swapTransaction |-> r.body.swapTransaction]
                /\ trace' = Append(trace, "execute")
                /\ UNCHANGED <<error, failedAt, exitCode, errorObject>>
        /\ UNCHANGED <<other, variant, walletKey, rpcEndpoint, quotes, retries, quote, swapRequestBody,
                       executeResponse, signature, polls, successLogged, returned>>

\* The build response arrives: check of swapResult, then the execute request.
BuildResponseOn(r) ==
    LET o == BuildStage(variant, r)
    IN  /\ buildResponse' = r
        /\ IF o.res # "ok"
           THEN /\ Terminate(o, "build")
                /\ UNCHANGED <<executeRequestBody, trace>>
           ELSE /\ pc' = "execute"
                /\ executeRequestBody' =
                       [sent |-> TRUE, swapTransaction |-> r.body.swapTransaction]
                /\ trace' = Append(trace, "execute")
                /\ UNCHANGED <<error, failedAt, exitCode, errorObject>>
        /\ UNCHANGED <<other, variant, walletKey, rpcEndpoint, quotes, retries, quote, swapRequestBody,
                       executeResponse, signature, polls, successLogged, returned>>

BuildResponse ==
    /\ pc = "build"
    /\ \E r \in BuildInputs(variant) : BuildResponseOn(r)

ExecuteInputs(v) ==
    IF v = "v21" THEN LibraryResults(ExecuteBodies) ELSE Responses(ExecuteBodies)

\* A faulty ExecuteResponseOn: `retries = MAX_RETRIES` before the verify
\* loop is missing, the loop goes on with what the quote loop left.
ExecuteResponseOnNoReset(r) ==
    LET o == ExecuteStage(variant, r)
    IN  /\ executeResponse' = r
        /\ IF o.res # "ok"
           THEN /\ Terminate(o, "execute")
                /\ UNCHANGED <<signature, retries, trace, successLogged>>
           ELSE /\ pc' = "confirm"
                /\ signature' = r.body.txid
                /\ successLogged' = TRUE
                /\ retries' = retries
                /\ trace' = Append(trace, "confirm")
                /\ UNCHANGED <<error, failedAt, exitCode, errorObject>>
        /\ UNCHANGED <<other, variant, walletKey, rpcEndpoint, quotes, quote, swapRequestBody, buildResponse,
                       executeRequestBody, polls, returned>>

\* The execute response arrives: check of executeResult, the success
\* message, and the first confirmation poll.
ExecuteResponseOn(r) ==
    LET o == ExecuteStage(variant, r)
    IN  /\ executeResponse' = r
        /\ IF o.res # "ok"
           THEN /\ Terminate(o, "execute")
                /\ UNCHANGED <<signature, retries, trace, successLogged>>
           ELSE /\ pc' = "confirm"
                /\ signature' = r.body.txid
                /\ successLogged' = TRUE
                /\ retries' = IF variant = "v21" THEN retries ELSE VerifyRetries(variant)
                /\ trace' = Append(trace, "confirm")
                /\ UNCHANGED <<error, failedAt, exitCode, errorObject>>
        /\ UNCHANGED <<other, variant, walletKey, rpcEndpoint, quotes, quote, swapRequestBody, buildResponse,
                       executeRequestBody, polls, returned>>

\* A faulty ExecuteResponse: a failed submit is sent once more.
ExecuteResponseResend ==
    /\ pc = "execute"
    /\ \E r \in ExecuteInputs(variant) :
          IF ExecuteStage(variant, r).res # "ok" /\ Count("execute") < 2
          THEN /\ trace' = Append(trace, "execute")
               /\ executeResponse' = r
               /\ UNCHANGED <<other, variant, walletKey, rpcEndpoint, quotes, pc, retries, quote, swapRequestBody,
                              buildResponse, executeRequestBody, signature, polls,
                              error, failedAt, exitCode, errorObject, successLogged,
                              returned>>
          ELSE ExecuteResponseOn(r)

ExecuteResponse ==
    /\ pc = "execute"
    /\ \E r \in ExecuteInputs(variant) : ExecuteResponseOn(r)

ConfirmInputs(v) ==
    IF v \in {"v70", "v64"} THEN Responses(ConfirmBodies) ELSE ConfirmationResults

\* What a confirmation poll met, whatever the script makes of it: a
\* transport error (no response, a non-2xx status, a body that is no JSON
\* object), no result yet, a result without meta, or a result whose
\* meta.err is null ("confirmed") or set ("chainerr").
PollClass(r) ==
    IF r.net = "fail" \/ ~r.ok \/ r.body.kind # "object" THEN "transport"
    ELSE IF r.body.result # "object" THEN "pending"
    ELSE IF r.body.meta # "object" THEN "nometa"
    ELSE IF Truthy(r.body.err) THEN "chainerr" ELSE "confirmed"

\* A faulty PollResponseOn: `retries--` sits inside the try block, so that a
\* poll that throws spends no attempt.
PollResponseOnKeepsRetry(r) ==
    /\ polls' = Append(polls, PollClass(r))
    /\ IF variant = "v21"
       THEN IF ConfirmOnce(r).res # "ok"
            THEN /\ Terminate(ConfirmOnce(r), "verify")
                 /\ UNCHANGED <<retries, trace, returned>>
            ELSE /\ pc' = "returned"
                 /\ exitCode' = 0
                 /\ returned' = Undef
                 /\ UNCHANGED <<retries, trace, error, failedAt, errorObject>>
       ELSE IF VerifyStep(variant, r) = "confirmed"
            THEN /\ pc' = "returned"
                 /\ exitCode' = 0
                 /\ returned' = signature
                 /\ UNCHANGED <<retries, trace, error, failedAt, errorObject>>
            ELSE /\ pc' = "confirm_sleep"
                 /\ retries' = IF VerifyStep(variant, r) = "caught"
                               THEN retries ELSE retries - 1
                 /\ trace' = Append(trace, "wait")
                 /\ UNCHANGED <<returned, error, failedAt, exitCode, errorObject>>
    /\ UNCHANGED <<other, variant, walletKey, rpcEndpoint, quotes, quote, swapRequestBody, buildResponse,
                   executeRequestBody, executeResponse, signature, successLogged>>

\* A faulty PollResponseOn: the 1-second wait of the verify loop is missing,
\* the next poll follows the unsettled one at once.
PollResponseOnNoWait(r) ==
    /\ polls' = Append(polls, PollClass(r))
    /\ IF variant = "v21"
       THEN IF ConfirmOnce(r).res # "ok"
            THEN /\ Terminate(ConfirmOnce(r), "verify")
                 /\ UNCHANGED <<retries, trace, returned>>
            ELSE /\ pc' = "returned"
                 /\ exitCode' = 0
                 /\ returned' = Undef
                 /\ UNCHANGED <<retries, trace, error, failedAt, errorObject>>
       ELSE IF VerifyStep(variant, r) = "confirmed"
            THEN /\ pc' = "returned"
                 /\ exitCode' = 0
                 /\ returned' = signature
                 /\ UNCHANGED <<retries, trace, error, failedAt, errorObject>>
            ELSE /\ retries' = retries - 1
                 /\ IF retries - 1 > 0
                    THEN /\ pc' = "confirm"
                         /\ trace' = Append(trace, "confirm")
                         /\ UNCHANGED <<error, failedAt, exitCode, errorObject>>
                    ELSE /\ Terminate(Throw(VerificationFailed), "verify")
                         /\ UNCHANGED trace
                 /\ UNCHANGED returned
    /\ UNCHANGED <<other, variant, walletKey, rpcEndpoint, quotes, quote, swapRequestBody, buildResponse,
                   executeRequestBody, executeResponse, signature, successLogged>>

\* A faulty PollResponseOn: the wait is skipped once `retries` has reached
\* 0, the error after the loop is thrown at once.
PollResponseOnNoLastWait(r) ==
    /\ polls' = Append(polls, PollClass(r))
    /\ IF variant = "v21"
       THEN IF ConfirmOnce(r).res # "ok"
            THEN /\ Terminate(ConfirmOnce(r), "verify")
                 /\ UNCHANGED <<retries, trace, returned>>
            ELSE /\ pc' = "returned"
                 /\ exitCode' = 0
                 /\ returned' = Undef
                 /\ UNCHANGED <<retries, trace, error, failedAt, errorObject>>
       ELSE IF VerifyStep(variant, r) = "confirmed"
            THEN /\ pc' = "returned"
                 /\ exitCode' = 0
                 /\ returned' = signature
                 /\ UNCHANGED <<retries, trace, error, failedAt, errorObject>>
            ELSE /\ retries' = retries - 1
                 /\ IF retries - 1 > 0
                    THEN /\ pc' = "confirm_sleep"
                         /\ trace' = Append(trace, "wait")
                         /\ UNCHANGED <<error, failedAt, exitCode, errorObject>>
                    ELSE /\ Terminate(Throw(VerificationFailed), "verify")
                         /\ UNCHANGED trace
                 /\ UNCHANGED returned
    /\ UNCHANGED <<other, variant, walletKey, rpcEndpoint, quotes, quote, swapRequestBody, buildResponse,
                   executeRequestBody, executeResponse, signature, successLogged>>

\* The response of a confirmation poll arrives.
PollResponseOn(r) ==
    /\ polls' = Append(polls, PollClass(r))
    /\ IF variant = "v21"
       THEN IF ConfirmOnce(r).res # "ok"
            THEN /\ Terminate(ConfirmOnce(r), "verify")
                 /\ UNCHANGED <<retries, trace, returned>>
            ELSE /\ pc' = "returned"
                 /\ exitCode' = 0
                 /\ returned' = Undef
                 /\ UNCHANGED <<retries, trace, error, failedAt, errorObject>>
       ELSE IF VerifyStep(variant, r) = "confirmed"
            THEN /\ pc' = "returned"
                 /\ exitCode' = 0
                 /\ returned' = signature
                 /\ UNCHANGED <<retries, trace, error, failedAt, errorObject>>
            ELSE \* retries--, then the 1-second wait
                 /\ pc' = "confirm_sleep"
                 /\ retries' = retries - 1
                 /\ trace' = Append(trace, "wait")
                 /\ UNCHANGED <<returned, error, failedAt, exitCode, errorObject>>
    /\ UNCHANGED <<other, variant, walletKey, rpcEndpoint, quotes, quote, swapRequestBody, buildResponse,
                   executeRequestBody, executeResponse, signature, successLogged>>

PollResponse ==
    /\ pc = "confirm"
    /\ \E r \in ConfirmInputs(variant) : PollResponseOn(r)

\* A faulty PollTimer: the fetch of the poll is not awaited, so the loop
\* goes on to its next poll while the earlier one is outstanding.
PollTimerOverlap ==
    /\ pc \in {"confirm", "confirm_sleep"}
    /\ IF pc = "confirm"
       THEN /\ retries > 1
            /\ retries' = retries - 1
            /\ pc' = "confirm"
            /\ trace' = Append(Append(trace, "wait"), "confirm")
            /\ UNCHANGED <<error, failedAt, exitCode, errorObject>>
       ELSE IF retries > 0
       THEN /\ pc' = "confirm"
            /\ trace' = Append(trace, "confirm")
            /\ UNCHANGED <<retries, error, failedAt, exitCode, errorObject>>
       ELSE /\ Terminate(Throw(VerificationFailed), "verify")
            /\ UNCHANGED <<retries, trace>>
    /\ UNCHANGED <<other, variant, walletKey, rpcEndpoint, quotes, quote, swapRequestBody, buildResponse,
                   executeRequestBody, executeResponse, signature, polls,
                   successLogged, returned>>

\* A faulty PollTimer: the throw after the loop is missing, the function
\* falls through to `return signature`.
PollTimerNoThrow ==
    /\ pc = "confirm_sleep"
    /\ IF retries > 0
       THEN /\ pc' = "confirm"
            /\ trace' = Append(trace, "confirm")
            /\ UNCHANGED <<exitCode, returned>>
       ELSE /\ pc' = "returned"
            /\ exitCode' = 0
            /\ returned' = signature
            /\ UNCHANGED trace
    /\ UNCHANGED <<other, variant, walletKey, rpcEndpoint, quotes, retries, quote, swapRequestBody, buildResponse,
                   executeRequestBody, executeResponse, signature, polls, error,
                   failedAt, errorObject, successLogged>>

\* The 1-second timer of the verify loop fires: the loop condition, then the
\* next poll or the throw after the loop.
PollTimer ==
    /\ pc = "confirm_sleep"
    /\ IF retries > 0
       THEN /\ pc' = "confirm"
            /\ trace' = Append(trace, "confirm")
            /\ UNCHANGED <<error, failedAt, exitCode, errorObject>>
       ELSE /\ Terminate(Throw(VerificationFailed), "verify")
            /\ UNCHANGED trace
    /\ UNCHANGED <<other, variant, walletKey, rpcEndpoint, quotes, retries, quote, swapRequestBody, buildResponse,
                   executeRequestBody, executeResponse, signature, polls,
                   successLogged, returned>>

Next ==
    \/ Launch
    \/ QuoteResponse
    \/ QuoteTimer
    \/ BuildResponse
    \/ ExecuteResponse
    \/ PollResponse
    \/ PollTimer

Spec == Init /\ [][Next]_vars

\* The steps of the variants without the quote retry loop (all but
\* part_001): the quote timer is never started.
NextSingleQuote ==
    \/ Launch
    \/ QuoteResponse
    \/ BuildResponse
    \/ ExecuteResponse
    \/ PollResponse
    \/ PollTimer

\* The run of src/execute_buy_v70.js alone.
InitV70 == Init /\ variant = "v70"

SpecV70 == InitV70 /\ [][NextSingleQuote]_vars

\* The run of src/execute_buy_v22.js alone.
InitV22 == Init /\ variant = "v22"

SpecV22 == InitV22 /\ [][NextSingleQuote]_vars

\* The run of src/execute_buy_v64.js alone.
InitV64 == Init /\ variant = "v64"

SpecV64 == InitV64 /\ [][NextSingleQuote]_vars

\* The run of src/unnamed/part_001 alone, the variant with the quote retry
\* loop.
InitP001 == Init /\ variant = "p001"

SpecP001 == InitP001 /\ [][Next]_vars

\* The runs of src/execute_buy_v70.js and src/execute_buy_v64.js, the two
\* scripts that poll getTransaction through fetch.
InitV70V64 == Init /\ variant \in {"v70", "v64"}

SpecV70V64 == InitV70V64 /\ [][NextSingleQuote]_vars

\* The runs of src/execute_buy_v70.js and src/execute_buy_v21.js.
InitV70V21 == Init /\ variant \in {"v70", "v21"}

SpecV70V21 == InitV70V21 /\ [][NextSingleQuote]_vars

\* The quotes handed to the stringification on its own: every amount field
\* a string, an integer or a floating value, the routePlan empty or of one
\* entry.
StringifiableVals == {Str("123456"), Num(123456, 0), Num(5, -1)}

\* A second route entry, unlike GoodPlan in every field.
SplitPlan ==
    [swapInfo |-> [present |-> TRUE, ammKey |-> Str("pool2"),
                   inAmount |-> Num(25, 8), outAmount |-> Num(61728, 0),
                   feeAmount |-> Num(6, 0)],
     percent |-> Num(5, 1)]

StringifyInputs ==
    {[GoodQuote EXCEPT !.inAmount = a, !.outAmount = b, !.otherAmountThreshold = c,
                       !.swapUsdValue = d, !.swapMode = m, !.routePlan.plans = rp] :
        a \in StringifiableVals, b \in StringifiableVals \cup {Str("0"), Num(0, 0)},
        c \in StringifiableVals, d \in StringifiableVals,
        m \in {Str("ExactIn"), Str("ExactOut")},
        rp \in {<<>>, <<GoodPlan, SplitPlan>>, <<SplitPlan, GoodPlan>>} \cup
               {<<[GoodPlan EXCEPT !.swapInfo.inAmount = x, !.swapInfo.outAmount = y,
                                   !.swapInfo.feeAmount = z]>> :
                   x \in StringifiableVals, y \in StringifiableVals,
                   z \in StringifiableVals}}

InitStringify ==
    /\ other = NoRun
    /\ variant = "v70"
    /\ rpcEndpoint = "unset"
    /\ walletKey = "valid"
    /\ pc = "init"
    /\ retries = 0
    /\ quote \in StringifyInputs
    /\ swapRequestBody = [sent |-> FALSE, quoteResponse |-> NoQuote]
    /\ buildResponse = NoResponse(BuildBodies)
    /\ executeRequestBody = [sent |-> FALSE, swapTransaction |-> Undef]
    /\ executeResponse = NoResponse(ExecuteBodies)
    /\ signature = Undef
    /\ trace = <<>>
    /\ polls = <<>>
    /\ quotes = <<>>
    /\ error = ""
    /\ failedAt = ""
    /\ exitCode = -1
    /\ errorObject = FALSE
    /\ successLogged = FALSE
    /\ returned = Undef

\* The stringification of `quote` into the body of the build request.
Stringify ==
    /\ ~swapRequestBody.sent
    /\ swapRequestBody' = [sent |-> TRUE, quoteResponse |-> stringifiedQuote(quote)]
    /\ UNCHANGED <<other, variant, walletKey, rpcEndpoint, pc, retries, quote, buildResponse,
                   executeRequestBody, executeResponse, signature, trace, polls,
                   quotes, error, failedAt, exitCode, errorObject, successLogged,
                   returned>>

\* The stringification applied to its own result.
Restringify ==
    /\ swapRequestBody.sent
    /\ swapRequestBody' =
           [swapRequestBody EXCEPT !.quoteResponse = stringifiedQuote(@)]
    /\ UNCHANGED <<other, variant, walletKey, rpcEndpoint, pc, retries, quote, buildResponse,
                   executeRequestBody, executeResponse, signature, trace, polls,
                   quotes, error, failedAt, exitCode, errorObject, successLogged,
                   returned>>

NextStringify ==
    \/ Stringify
    \/ Restringify

SpecStringify == InitStringify /\ [][NextStringify]_vars

\* The run of src/execute_buy_v70.js when every request is answered or
\* fails and every timer fires: a step that stays possible is taken.
LiveSpecV70 == SpecV70 /\ WF_vars(NextSingleQuote)

\* The runs of src/unnamed/part_001 and src/execute_buy_v70.js when every
\* request is answered or fails and every timer fires.  RPC_ENDPOINT is left
\* unset: no step of either script depends on the endpoint chosen.
InitV70P001 == Init /\ variant \in {"v70", "p001"} /\ rpcEndpoint = "unset"

LiveSpecV70P001 == InitV70P001 /\ [][Next]_vars /\ WF_vars(Next)

\* ------------------------------------------------------------------------
\* Two runs of src/execute_buy_v70.js at the same time, each `node` process
\* of its own.  The script declares its mutable state (quote, swapResult,
\* signature, retries, ...) inside executeSwap and only constants at module
\* level, so the state of a run is `run`; `other` holds the run that is not
\* taking the step, and SwitchRun lets the other run take the next ones.
\* ------------------------------------------------------------------------

\* The answers the two runs can meet: one failure and one or two answers
\* that let the run go on, for each request.
TwoRunQuoteInputs ==
    {r \in Responses(QuoteBodies) : r.net = "fail" \/ (r.ok /\ r.body = GoodQuote)}

TwoRunBuildInputs ==
    {r \in Responses(BuildBodies) :
        r.net = "fail" \/ (r.ok /\ r.body.kind = "object" /\ r.body.error = Undef
                               /\ r.body.swapTransaction = Str("BASE64BLOB"))}

TwoRunExecuteInputs ==
    {r \in Responses(ExecuteBodies) :
        r.net = "fail" \/ (r.ok /\ r.body.kind = "object" /\ r.body.error = Undef
                               /\ r.body.txid = Str("abcd"))}

TwoRunConfirmInputs ==
    {r \in Responses(ConfirmBodies) :
        r.net = "fail" \/ (r.ok /\ PollClass(r) \in {"pending", "confirmed"})}

\* The state of a run that has not started.
NewRun(key) ==
    <<"v70", key, "init", 0, NoQuote, [sent |-> FALSE, quoteResponse |-> NoQuote],
      NoResponse(BuildBodies), [sent |-> FALSE, swapTransaction |-> Undef],
      NoResponse(ExecuteBodies), Undef, <<>>, <<>>, <<>>, "", "", -1, FALSE, FALSE,
      Undef, "unset">>

InitTwoRuns ==
    /\ other \in {NewRun(key) : key \in {"unset", "valid"}}
    /\ \E key \in {"unset", "valid"} :
          /\ variant = NewRun(key)[1]
          /\ walletKey = NewRun(key)[2]
          /\ pc = NewRun(key)[3]
          /\ retries = NewRun(key)[4]
          /\ quote = NewRun(key)[5]
          /\ swapRequestBody = NewRun(key)[6]
          /\ buildResponse = NewRun(key)[7]
          /\ executeRequestBody = NewRun(key)[8]
          /\ executeResponse = NewRun(key)[9]
          /\ signature = NewRun(key)[10]
          /\ trace = NewRun(key)[11]
          /\ polls = NewRun(key)[12]
          /\ quotes = NewRun(key)[13]
          /\ error = NewRun(key)[14]
          /\ failedAt = NewRun(key)[15]
          /\ exitCode = NewRun(key)[16]
          /\ errorObject = NewRun(key)[17]
          /\ successLogged = NewRun(key)[18]
          /\ returned = NewRun(key)[19]
          /\ rpcEndpoint = NewRun(key)[20]

\* A faulty SwitchRun: `retries` is declared at module level and the two
\* runs are two calls in one process, so the run that resumes finds the
\* counter as the other run left it.
SwitchRunSharedRetries ==
    /\ other # NoRun
    /\ retries' = retries
    /\ variant' = other[1]
    /\ walletKey' = other[2]
    /\ pc' = other[3]
    /\ quote' = other[5]
    /\ swapRequestBody' = other[6]
    /\ buildResponse' = other[7]
    /\ executeRequestBody' = other[8]
    /\ executeResponse' = other[9]
    /\ signature' = other[10]
    /\ trace' = other[11]
    /\ polls' = other[12]
    /\ quotes' = other[13]
    /\ error' = other[14]
    /\ failedAt' = other[15]
    /\ exitCode' = other[16]
    /\ errorObject' = other[17]
    /\ successLogged' = other[18]
    /\ returned' = other[19]
    /\ rpcEndpoint' = other[20]
    /\ other' = [run EXCEPT ![4] = other[4]]

\* The other run takes over: the run that was taking steps is suspended as
\* it is, the other one resumes as it was suspended.
SwitchRun ==
    /\ other # NoRun
    /\ variant' = other[1]
    /\ walletKey' = other[2]
    /\ pc' = other[3]
    /\ retries' = other[4]
    /\ quote' = other[5]
    /\ swapRequestBody' = other[6]
    /\ buildResponse' = other[7]
    /\ executeRequestBody' = other[8]
    /\ executeResponse' = other[9]
    /\ signature' = other[10]
    /\ trace' = other[11]
    /\ polls' = other[12]
    /\ quotes' = other[13]
    /\ error' = other[14]
    /\ failedAt' = other[15]
    /\ exitCode' = other[16]
    /\ errorObject' = other[17]
    /\ successLogged' = other[18]
    /\ returned' = other[19]
    /\ rpcEndpoint' = other[20]
    /\ other' = run

TwoRunQuoteResponse ==
    /\ pc = "quote"
    /\ \E r \in TwoRunQuoteInputs : QuoteResponseOn(r)

TwoRunBuildResponse ==
    /\ pc = "build"
    /\ \E r \in TwoRunBuildInputs : BuildResponseOn(r)

TwoRunExecuteResponse ==
    /\ pc = "execute"
    /\ \E r \in TwoRunExecuteInputs : ExecuteResponseOn(r)

TwoRunPollResponse ==
    /\ pc = "confirm"
    /\ \E r \in TwoRunConfirmInputs : PollResponseOn(r)

NextTwoRuns ==
    \/ Launch
    \/ TwoRunQuoteResponse
    \/ TwoRunBuildResponse
    \/ TwoRunExecuteResponse
    \/ TwoRunPollResponse
    \/ PollTimer
    \/ SwitchRun

SpecTwoRuns == InitTwoRuns /\ [][NextTwoRuns]_vars

\* ------------------------------------------------------------------------
\* Properties.
\* ------------------------------------------------------------------------

Terminal == pc \in {"returned", "exited"}

\* The 1-second waits of the verify loop: those after the execute request.
VerifyWaits ==
    Cardinality({i \in DOMAIN trace :
                    trace[i] = "wait" /\ \E j \in 1..i : trace[j] = "execute"})

\* The outcome of a finished run as its caller can tell it: from the exit
\* status and the error message.
Outcome ==
    IF pc = "returned" THEN "Confirmed"
    ELSE IF pc # "exited" THEN "Running"
    ELSE IF error = VerificationFailed THEN "VerificationTimeout"
    ELSE IF error = "Transaction failed" THEN "OnChainFailure"
    ELSE "Failed"

\* C1: in every run at most one request is sent to the execute endpoint, and
\* a failed submit ends the run: it is never followed by a second execute
\* request.
C1_SingleExecuteRequest ==
    /\ Count("execute") <= 1
    /\ failedAt = "execute" => pc = "exited" /\ Count("execute") = 1

C1_Witness ==
    /\ failedAt = "execute"
    /\ executeResponse.net = "ok"
    /\ ~executeResponse.ok
    /\ Count("execute") = 1

\* The build response (one was received) carries no swapTransaction.
BuildLacksTransaction ==
    /\ buildResponse.net = "ok"
    /\ buildResponse.body.kind # "object" \/ buildResponse.body.swapTransaction = Undef

\* C2: if the build response lacks swapTransaction, the run fails with a
\* build error and no request is sent to the execute endpoint.
C2_NoExecuteWithoutTransaction ==
    BuildLacksTransaction =>
        pc = "exited" /\ failedAt = "build" /\ Count("execute") = 0

\* C3: if the build endpoint answers with a non-2xx status, whatever the
\* body, the run fails with a build error and no request is sent to the
\* execute endpoint.
C3_NoExecuteAfterBuildStatus ==
    (buildResponse.net = "ok" /\ ~buildResponse.ok) =>
        pc = "exited" /\ failedAt = "build" /\ Count("execute") = 0

\* The execute response (one was received) is non-2xx or carries no txid.
SubmitFailed ==
    /\ executeResponse.net = "ok"
    /\ \/ ~executeResponse.ok
       \/ executeResponse.body.kind # "object"
       \/ executeResponse.body.txid = Undef

\* C4: if the execute response is non-2xx or lacks a transaction id, the run
\* fails with a submit error and no confirmation poll is sent.
C4_NoPollAfterSubmitFailure ==
    SubmitFailed => pc = "exited" /\ failedAt = "execute" /\ Count("confirm") = 0

\* C5: a poll that meets an explicit execution error is the last poll of the
\* run: no poll is issued after it.
C5_StopOnChainError ==
    \A i \in DOMAIN polls : polls[i] = "chainerr" => Count("confirm") = i

\* C6: a finished run whose last poll met an explicit execution error ends
\* with the OnChainFailure outcome, not with the VerificationTimeout one.
C6_OnChainFailureDistinct ==
    (Terminal /\ polls # <<>> /\ polls[Len(polls)] = "chainerr") =>
        Outcome = "OnChainFailure"

\* C7: a poll that meets a result without execution error ends the verifier
\* at once: it is the last poll, no wait follows it, and the run returns the
\* txid of the execute response; on the first poll that is one confirm call.
C7_ConfirmedReturnsAtOnce ==
    \A i \in DOMAIN polls :
        polls[i] = "confirmed" =>
            /\ i = Len(polls)
            /\ Count("confirm") = i
            /\ VerifyWaits = i - 1
            /\ trace[Len(trace)] = "confirm"
            /\ pc = "returned"
            /\ exitCode = 0
            /\ returned = executeResponse.body.txid

C7_Witness ==
    /\ polls = <<"confirmed">>
    /\ pc = "returned"
    /\ returned = Str("abcd")
    /\ Count("confirm") = 1

\* C8: a transport error during a confirmation poll does not end the
\* verifier or the run: it costs exactly one attempt, the wait follows, and
\* while attempts remain the next step of the waiting verifier is a poll.
C8_TransportErrorStep ==
    /\ (Len(polls') = Len(polls) + 1 /\ polls'[Len(polls')] = "transport") =>
          (pc' = "confirm_sleep" /\ retries' = retries - 1)
    /\ (pc = "confirm_sleep" /\ retries > 0 /\ pc' # pc) => pc' = "confirm"

C8_TransportErrorSwallowed == [][C8_TransportErrorStep]_vars

\* C9: the number of confirmation polls of a run never exceeds MAX_RETRIES.
C9_PollsBounded == Count("confirm") <= MAX_RETRIES

C9_Witness ==
    /\ Count("confirm") = MAX_RETRIES
    /\ polls = <<"pending", "transport", "chainerr">>
    /\ pc = "exited"

\* All MAX_RETRIES polls were made and each met no result or a transport
\* error.
AllPollsUnsettled ==
    /\ Len(polls) = MAX_RETRIES
    /\ \A i \in DOMAIN polls : polls[i] \in {"pending", "transport"}

\* C10: if all MAX_RETRIES polls meet no result or a transport error, the
\* budget is used up, the run is never Confirmed, and it ends in failure with
\* the verification-timeout error.
C10_TimeoutAfterBudget ==
    AllPollsUnsettled =>
        /\ pc \in {"confirm_sleep", "exited"}
        /\ retries = 0
        /\ Outcome \in {"Running", "VerificationTimeout"}
        /\ pc = "exited" => failedAt = "verify" /\ exitCode = 1 /\ errorObject

C10_Witness ==
    /\ AllPollsUnsettled
    /\ pc = "exited"
    /\ Outcome = "VerificationTimeout"

\* The requests and waits of the verify stage: the trace after the execute
\* request.
VerifyTrace ==
    IF Count("execute") = 0 THEN <<>>
    ELSE LET e == CHOOSE i \in DOMAIN trace : trace[i] = "execute"
         IN  SubSeq(trace, e + 1, Len(trace))

\* The first k-1 polls met no result yet and the k-th a confirmed one.
PendingThenConfirmed(k) ==
    polls = [i \in 1..k |-> IF i < k THEN "pending" ELSE "confirmed"]

\* The verify stage made exactly k polls, one wait between each two.
PollsAlternateWithWaits(k) ==
    VerifyTrace = [i \in 1..(2 * k - 1) |-> IF i % 2 = 1 THEN "confirm" ELSE "wait"]

\* C11: when the first k-1 confirmation polls return result: null and the
\* k-th (k <= MAX_RETRIES) a result without error, exactly k polls were
\* made, each two consecutive ones separated by exactly one wait, and the
\* run succeeded.
C11_PendingThenConfirmed ==
    \A k \in 1..MAX_RETRIES :
        PendingThenConfirmed(k) =>
            /\ pc = "returned"
            /\ exitCode = 0
            /\ returned = signature
            /\ Count("confirm") = k
            /\ PollsAlternateWithWaits(k)

\* Two pending polls, then the confirmed one: three confirm calls.
C11_Witness ==
    /\ PendingThenConfirmed(3)
    /\ Count("confirm") = 3
    /\ pc = "returned"

\* C12: an API-level quote failure (explicit error field, malformed
\* response, missing or non-positive outAmount) is terminal: after such a
\* response no further quote request is issued and the run fails with a
\* quote error.
C12_ApiErrorTerminal ==
    \A i \in DOMAIN quotes :
        quotes[i] = "apierror" =>
            /\ Count("quote") = i
            /\ pc = "exited"
            /\ failedAt = "quote"

\* The 1-second waits of the quote stage: those before the execute request.
QuoteWaits == Count("wait") - VerifyWaits

\* C13: a transport failure of the quote request is retried: the request is
\* issued up to MAX_RETRIES times with one wait between consecutive
\* attempts, the run leaves the quote stage as soon as one attempt
\* succeeds, and it fails only after MAX_RETRIES failed attempts.
C13_TransportFailureRetried ==
    /\ Count("quote") <= MAX_RETRIES
    /\ Count("quote") > 0 =>
           QuoteWaits = IF pc = "quote_sleep" THEN Count("quote") ELSE Count("quote") - 1
    /\ \A i \in DOMAIN quotes :
           /\ quotes[i] = "quote" => Count("quote") = i /\ failedAt # "quote"
           /\ quotes[i] = "transport" /\ i < MAX_RETRIES =>
                  Count("quote") > i \/ pc = "quote_sleep"
    /\ (pc = "exited" /\ failedAt = "quote" /\ \A i \in DOMAIN quotes : quotes[i] = "transport")
           => Len(quotes) = MAX_RETRIES

\* C14: the quote stage hands on only a quote with outAmount > 0 and a
\* non-empty routePlan; a quote with outAmount zero (the string "0"
\* included) or with an empty routePlan never reaches the build request.
C14_OnlyUsableQuoteReachesBuild ==
    swapRequestBody.sent =>
        /\ PositiveAmount(quote.outAmount)
        /\ quote.routePlan.present
        /\ Len(quote.routePlan.plans) > 0

\* The amount-bearing fields of a quote, each routePlan[].swapInfo
\* included.
AmountFields(q) ==
    {q.inAmount, q.outAmount, q.otherAmountThreshold, q.swapUsdValue}
        \cup UNION {LET si == q.routePlan.plans[i].swapInfo
                    IN  IF si.present THEN {si.inAmount, si.outAmount, si.feeAmount} ELSE {} :
                    i \in DOMAIN q.routePlan.plans}

\* C15: the quote carried by the build request has every amount-bearing
\* field as a string; no build request is sent with one of them as a
\* native number.
C15_BuildRequestAmountsAreStrings ==
    swapRequestBody.sent =>
        \A f \in AmountFields(swapRequestBody.quoteResponse) : f.t = "string"

\* Every amount-bearing field of the quote is a string.
AllStrings(q) == \A f \in AmountFields(q) : f.t = "string"

\* C16: the stringification is idempotent: applied to its own result it
\* returns that result, for every quote whose amount fields are each a
\* string, an integer or a floating value; and a quote whose amount fields
\* are all strings comes out unchanged.
C16_StringifyIdempotent ==
    swapRequestBody.sent =>
        /\ stringifiedQuote(swapRequestBody.quoteResponse) = swapRequestBody.quoteResponse
        /\ AllStrings(quote) => swapRequestBody.quoteResponse = quote

\* A quote with an integer, a floating and a string amount was converted.
C16_Witness ==
    /\ swapRequestBody.sent
    /\ quote.inAmount = Num(123456, 0)
    /\ quote.swapUsdValue = Num(5, -1)
    /\ quote.outAmount = Str("123456")
    /\ swapRequestBody.quoteResponse.inAmount = Str("123456")
    /\ swapRequestBody.quoteResponse.swapUsdValue = Str("0.5")
    /\ swapRequestBody.quoteResponse.outAmount = Str("123456")

\* The stage an entry of the trace belongs to; a wait belongs to the stage
\* of the request before it.
StageRank(kind) ==
    CASE kind = "quote" -> 1
      [] kind = "build" -> 2
      [] kind = "execute" -> 3
      [] kind = "confirm" -> 4
      [] OTHER -> 0

\* The outbound requests of the run, in order, without the waits.
Requests == SelectSeq(trace, LAMBDA k : k # "wait")

\* C17: the run only moves forward: its outbound requests are quote
\* request(s), then one build request, then one execute request, then
\* confirm poll(s), and no request of an earlier stage follows a request of
\* a later stage.
C17_RequestsInStageOrder ==
    /\ \A i, j \in DOMAIN Requests :
           i < j => StageRank(Requests[i]) <= StageRank(Requests[j])
    /\ Count("build") <= 1
    /\ Count("execute") <= 1
    /\ Count("build") = 1 => Count("quote") >= 1
    /\ Count("execute") = 1 => Count("build") = 1
    /\ Count("confirm") >= 1 => Count("execute") = 1

\* A run that went through every stage and polled more than once.
C17_Witness ==
    /\ Count("quote") = 1
    /\ Count("build") = 1
    /\ Count("execute") = 1
    /\ Count("confirm") = MAX_RETRIES
    /\ Terminal

\* C19: at most one request is sent to the build endpoint: a build failure
\* ends the run and is never retried.
C19_SingleBuildRequest ==
    /\ Count("build") <= 1
    /\ buildResponse.net # "none" /\ BuildStage(variant, buildResponse).res # "ok" =>
           /\ pc = "exited"
           /\ failedAt = "build"
           /\ Count("build") = 1

\* A build request failed and the run ended there.
C19_Witness ==
    /\ failedAt = "build"
    /\ Count("build") = 1
    /\ pc = "exited"

\* A stage has failed: its error has been recorded.
Failed == failedAt # ""

\* The rank of the stage whose error is reported, on the scale of
\* StageRank; the normalization belongs to the quote stage, and nothing has
\* been requested when the wallet key is rejected.
FailedRank ==
    CASE failedAt \in {"quote", "normalize"} -> 1
      [] failedAt = "build" -> 2
      [] failedAt = "execute" -> 3
      [] failedAt = "verify" -> 4
      [] OTHER -> 0

\* The rank of the stage of the last outbound request.
LastRequestRank ==
    IF Requests = <<>> THEN 0 ELSE StageRank(Requests[Len(Requests)])

\* C18: Failed is terminal and absorbing: once a stage has failed the run
\* has exited with status 1, no further outbound request or wait follows,
\* and the error reported is and stays the error of the stage that failed
\* first, the stage of the last request made.
C18_FailedIsAbsorbing ==
    /\ [](Failed => pc = "exited" /\ exitCode = 1 /\ FailedRank = LastRequestRank)
    /\ [][Failed => /\ trace' = trace
                    /\ error' = error
                    /\ failedAt' = failedAt
                    /\ pc' = pc]_vars

\* The build stage failed after the quote stage had succeeded: the error
\* reported is the one of the build stage.
C18_Witness ==
    /\ Failed
    /\ failedAt = "build"
    /\ error # ""
    /\ trace = <<"quote", "build">>
    /\ pc = "exited"

\* The last confirmation poll reported the transaction as confirmed.
LastPollConfirmed == polls # <<>> /\ polls[Len(polls)] = "confirmed"

C21_NoPartialSuccess ==
    /\ ~(successLogged /\ pc = "exited")
    /\ successLogged => LastPollConfirmed

\* C22: every exit with a non-zero status is preceded by the writing of the
\* structured error object {success: false, error: message}.
C22_ErrorObjectBeforeExit ==
    exitCode = 1 => errorObject /\ error # ""

\* C23: every confirmation poll carries `signature`, which is the txid of
\* the execute response of the run and a non-empty string: the verifier is
\* never started with an absent or empty transaction id.
C23_PollsCarryTxid ==
    Count("confirm") > 0 =>
        /\ signature = executeResponse.body.txid
        /\ signature.t = "string"
        /\ signature.s # ""

\* C24: the transaction returned by the build stage is consumed exactly
\* once and unmodified: the swapTransaction of the single execute request
\* equals the swapTransaction of the build response of the run.
C24_SwapTransactionUnmodified ==
    IF executeRequestBody.sent
    THEN /\ Count("execute") = 1
         /\ buildResponse.net = "ok"
         /\ executeRequestBody.swapTransaction = buildResponse.body.swapTransaction
         /\ Truthy(executeRequestBody.swapTransaction)
    ELSE Count("execute") = 0

\* The execute request went out with the transaction of the build response.
C24_Witness ==
    /\ executeRequestBody.sent
    /\ buildResponse.body.swapTransaction = Str("BASE64BLOB")
    /\ executeRequestBody.swapTransaction = Str("BASE64BLOB")
    /\ Count("execute") = 1

\* C25: the verifier always terminates, and within MAX_RETRIES poll
\* intervals: whatever the polls meet, at most MAX_RETRIES waits are made
\* and a run that polls ends.
C25_VerifierTerminates ==
    /\ [](VerifyWaits <= MAX_RETRIES)
    /\ (Count("confirm") > 0 ~> Terminal)

\* The verifier gave up after MAX_RETRIES waits on pending polls and
\* transport errors.
C25_Witness ==
    /\ polls = <<"pending", "transport", "pending">>
    /\ VerifyWaits = MAX_RETRIES
    /\ pc = "exited"
    /\ error = VerificationFailed

\* C26: when every outbound request is answered or fails, every run ends
\* (returned or exited), and the requests of a run are bounded by the retry
\* budgets: at most MAX_RETRIES quote requests, 1 build request, 1 execute
\* request and MAX_RETRIES confirmation polls.
C26_TerminatesWithinBudgets ==
    /\ [](/\ Count("quote") <= MAX_RETRIES
          /\ Count("build") <= 1
          /\ Count("execute") <= 1
          /\ Count("confirm") <= MAX_RETRIES)
    /\ <>Terminal

\* A run that used every budget: three quote requests and three polls.
C26_Witness ==
    /\ Count("quote") = MAX_RETRIES
    /\ Count("build") = 1
    /\ Count("execute") = 1
    /\ Count("confirm") = MAX_RETRIES
    /\ Terminal

\* The responses received so far (an error of the request counts as one).
Responded ==
    Len(quotes) + Len(polls)
        + (IF buildResponse.net # "none" THEN 1 ELSE 0)
        + (IF executeResponse.net # "none" THEN 1 ELSE 0)

\* The requests issued and not yet answered.
Outstanding == Len(Requests) - Responded

\* C27: within one run at most one outbound request is outstanding at any
\* time: a request is issued only once the request before it has been
\* answered, and a confirmation poll only after the poll before it has
\* completed and its wait has elapsed.
C27_OneOutstandingRequest ==
    /\ Outstanding \in {0, 1}
    /\ Outstanding = 1 <=> pc \in {"quote", "build", "execute", "confirm"}
    /\ \A i \in DOMAIN VerifyTrace :
           VerifyTrace[i] = "confirm" /\ i > 1 =>
               /\ VerifyTrace[i - 1] = "wait"
               /\ Len(polls) >= (i - 1) \div 2

\* The third poll is outstanding, the two before it have been answered.
C27_Witness ==
    /\ pc = "confirm"
    /\ Count("confirm") = MAX_RETRIES
    /\ Len(polls) = 2
    /\ Outstanding = 1

\* The polls that did not report the transaction as confirmed.
UnsettledPolls == Cardinality({i \in DOMAIN polls : polls[i] # "confirmed"})

\* The verify stage of the run is what the responses the run itself
\* received make of it when the run is alone: one poll per response (and the
\* one outstanding), one wait and one retry spent per unsettled poll, the
\* return on the first confirmed poll, the failure after MAX_RETRIES
\* unsettled ones.
VerifyAsAlone ==
    /\ Count("confirm") = Len(polls) + (IF pc = "confirm" THEN 1 ELSE 0)
    /\ VerifyWaits = UnsettledPolls
    /\ pc \in {"confirm", "confirm_sleep"} => retries = MAX_RETRIES - UnsettledPolls
    /\ pc = "returned" <=> LastPollConfirmed
    /\ failedAt = "verify" <=> (pc = "exited" /\ UnsettledPolls = MAX_RETRIES)

TradeAttempts ==
    Cardinality({i \in DOMAIN trace :
                    trace[i] = "quote" /\ (i = 1 \/ trace[i - 1] # "wait")})

\* The trade failed: the run ended with an error after its first request.
TradeFailed ==
    pc = "exited" /\ failedAt \in {"quote", "normalize", "build", "execute", "verify"}

\* C29: a failed trade is retried automatically, at most MaxTradeRetries
\* times: the system ends with a failed trade only after the first attempt
\* and MaxTradeRetries further attempts have failed.
C29_FailedTradeRetried ==
    /\ TradeAttempts <= 1 + MaxTradeRetries
    /\ TradeFailed => TradeAttempts = 1 + MaxTradeRetries

\* The endpoint the i-th chain RPC call of the run goes to: every call uses
\* the endpoint fixed at the start of the run.
EndpointOfPoll(i) == RpcEndpointOf(variant, rpcEndpoint)

\* C30: when the configured (primary) RPC endpoint is unavailable, the
\* fallback endpoint https://api.mainnet-beta.solana.com is used: the chain
\* RPC call that follows a call the primary endpoint failed to answer goes
\* to the fallback endpoint.
C30_FallbackEndpointUsed ==
    \A i \in DOMAIN polls :
        (/\ polls[i] = "transport"
         /\ EndpointOfPoll(i) = PrimaryEndpoint
         /\ Count("confirm") > i)
            => EndpointOfPoll(i + 1) = FallbackEndpoint

\* C31: the attempt budget of the verifier does not depend on the quote
\* stage: whatever the number of quote requests, the first poll starts with
\* MAX_RETRIES attempts, and a run that ends in "Transaction verification
\* failed" has sent exactly MAX_RETRIES polls.
C31_VerifierBudgetIndependent ==
    /\ (pc = "confirm" /\ Count("confirm") = 1) => retries = MAX_RETRIES
    /\ (failedAt = "verify" /\ error = VerificationFailed)
           => Count("confirm") = MAX_RETRIES

\* The quote took all its attempts and the verifier still polled
\* MAX_RETRIES times before it gave up.
C31_Witness ==
    /\ Count("quote") = MAX_RETRIES
    /\ failedAt = "verify"
    /\ error = VerificationFailed
    /\ Count("confirm") = MAX_RETRIES

\* The i-th entry of the trace is a wait of the quote retry loop.
QuoteStageWait(i) ==
    /\ trace[i] = "wait"
    /\ \A j \in 1..i : trace[j] # "confirm"

\* C32: in the quote retry loop a wait occurs only between two attempts.
\* Every wait of the loop follows a quote request and is followed by the
\* next one; a run that fails in the quote stage has sent MAX_RETRIES
\* requests, ends on the failed request with no wait after it, and reports
\* an error of that last attempt; a successful attempt is followed by the
\* build request at once, and no quote request comes after it.
C32_QuoteWaitOnlyBetweenAttempts ==
    /\ \A i \in DOMAIN trace :
           QuoteStageWait(i) =>
               /\ i > 1 /\ trace[i - 1] = "quote"
               /\ IF i < Len(trace) THEN trace[i + 1] = "quote" ELSE pc = "quote_sleep"
    /\ failedAt = "quote" =>
           /\ Count("quote") = MAX_RETRIES
           /\ trace[Len(trace)] = "quote"
           /\ QuoteWaits = MAX_RETRIES - 1
           /\ quotes[Len(quotes)] # "quote"
           /\ error # ""
           /\ quotes[Len(quotes)] = "transport" => error \in {"FetchError", "SyntaxError"}
    /\ \A i \in DOMAIN trace :
           trace[i] = "build" =>
               /\ trace[i - 1] = "quote"
               /\ \A j \in DOMAIN trace : j > i => trace[j] # "quote"

\* The third quote request fails after two waits, and the run ends there.
C32_Witness ==
    /\ failedAt = "quote"
    /\ Count("quote") = MAX_RETRIES
    /\ QuoteWaits = MAX_RETRIES - 1
    /\ pc = "exited"

\* C33: in the verifier a wait follows every poll that does not return the
\* signature, the last one included: a poll that has been answered is
\* followed by a wait unless the run returned on it, and "Transaction
\* verification failed" is reported only after exactly MAX_RETRIES polls
\* and exactly MAX_RETRIES waits, the last entry of the trace being a wait.
C33_WaitAfterEveryUnconfirmedPoll ==
    /\ \A i \in DOMAIN trace :
           trace[i] = "confirm" =>
               IF i < Len(trace) THEN trace[i + 1] = "wait"
               ELSE pc \in {"confirm", "returned"}
    /\ (failedAt = "verify" /\ error = VerificationFailed) =>
           /\ Count("confirm") = MAX_RETRIES
           /\ VerifyWaits = MAX_RETRIES
           /\ trace[Len(trace)] = "wait"

\* The third poll is not confirmed either, the third wait has passed and the
\* run has failed.
C33_Witness ==
    /\ pc = "exited"
    /\ failedAt = "verify"
    /\ Len(polls) = MAX_RETRIES
    /\ VerifyWaits = MAX_RETRIES
    /\ trace[Len(trace)] = "wait"

\* C34: with WALLET_KEY unset the process exits with a non-zero status
\* before the pipeline starts: no quote, build, execute or confirm request
\* is ever sent, and the only step the run takes is the exit with status 1.
C34_NoRequestWithoutWalletKey ==
    walletKey = "unset" =>
        /\ trace = <<>>
        /\ ~swapRequestBody.sent
        /\ ~executeRequestBody.sent
        /\ polls = <<>>
        /\ pc \in {"init", "exited"}
        /\ pc = "exited" => exitCode = 1 /\ failedAt = "wallet"

\* The run without a wallet key has exited.
C34_Witness ==
    /\ walletKey = "unset"
    /\ pc = "exited"
    /\ exitCode = 1
    /\ trace = <<>>

\* The quote lacks a field the stringification converts: one of its own
\* amounts, or the swapInfo or one of the swapInfo amounts of a routePlan
\* entry.
LacksAmountField(q) ==
    \/ \E f \in {"inAmount", "otherAmountThreshold", "priceImpactPct", "swapUsdValue"} :
           q[f] = Undef
    \/ \E i \in DOMAIN q.routePlan.plans :
           LET si == q.routePlan.plans[i].swapInfo
           IN  \/ ~si.present
               \/ \E f \in {"inAmount", "outAmount", "feeAmount"} : si[f] = Undef

\* C35: a quote that passed the quote check but lacks an amount-bearing
\* field fails the normalization: the run has ended in failure with exit
\* status 1 and the error object written, and no build or execute request
\* has been sent.
C35_MissingAmountFailsNormalization ==
    (quote.kind = "object" /\ LacksAmountField(quote)) =>
        /\ pc = "exited"
        /\ exitCode = 1
        /\ failedAt = "normalize"
        /\ error = "TypeError"
        /\ errorObject
        /\ ~swapRequestBody.sent
        /\ Count("build") = 0
        /\ Count("execute") = 0

\* A quote with outAmount but no swapUsdValue has ended the run.
C35_Witness ==
    /\ quote.kind = "object"
    /\ Truthy(quote.outAmount)
    /\ quote.swapUsdValue = Undef
    /\ failedAt = "normalize"
    /\ pc = "exited"

\* What the stringification has no business with: the non-amount fields of
\* the quote and, entry by entry, those of the routePlan.
NonAmountFields(q) ==
    [error |-> q.error, swapMode |-> q.swapMode, slippageBps |-> q.slippageBps,
     platformFee |-> q.platformFee, contextSlot |-> q.contextSlot,
     timeTaken |-> q.timeTaken,
     routePlan |->
        [i \in DOMAIN q.routePlan.plans |->
            [percent |-> q.routePlan.plans[i].percent,
             ammKey |-> q.routePlan.plans[i].swapInfo.ammKey]]]

C37_NoMetaHandledLikeTransportError ==
    \A i \in DOMAIN polls :
        polls[i] = "nometa" =>
            /\ pc = "returned" => Len(polls) > i
            /\ failedAt = "verify" =>
                   error = VerificationFailed /\ Len(polls) = MAX_RETRIES
            /\ pc \in {"confirm", "confirm_sleep"} => retries = MAX_RETRIES - Len(polls)
            /\ VerifyWaits >= i
            /\ i < MAX_RETRIES =>
                   Count("confirm") > i \/ pc = "confirm_sleep"

\* The first poll brought a result without meta, the second one the
\* confirmation.
C37_Witness ==
    /\ polls = <<"nometa", "confirmed">>
    /\ pc = "returned"
    /\ VerifyWaits = 1

====
